---- MODULE Spec2Model ----
(***************************************************************************)
(* Model of ip2c's interval-keyed ordered map (src/src/itree.rs):          *)
(* Interval<T>, its overlap comparator Ord::cmp, and IntervalTreeMap with  *)
(* insert_interval / insert_range / insert_scope / insert_point / insert / *)
(* query / get_key_value / remove_interval over a BTreeMap.                *)
(*                                                                         *)
(* Spec        : one IntervalTreeMap under any sequence of calls           *)
(* SpecCompare : Ord::cmp on one pair of intervals                         *)
(* SpecOrders  : one batch of disjoint intervals inserted in two orders    *)
(***************************************************************************)
EXTENDS Integers, Sequences, FiniteSets, TLC

\* ------------------------------------------------------------------ bounds
\* scalars K are 0..MaxPoint
MaxPoint == 2

Points == 0..MaxPoint
\* the largest batch inserted in two orders
MaxBatch == 3
\* values V are opaque payloads; two of them tell an overwrite from a no-op
Values == {"a", "b"}

\* ---------------------------------------------------------------- Interval
\* enum Interval<T> { Range(T, T), Scope(T, T) }
Range(a, b) == [tag |-> "Range", lo |-> a, hi |-> b]
Scope(a, b) == [tag |-> "Scope", lo |-> a, hi |-> b]

\* every value of the type, well-formed or not
Interval == {Range(a, b) : a \in Points, b \in Points}
              \cup {Scope(a, b) : a \in Points, b \in Points}

\* mutant of reverse: the (Scope, Range) arm forgets to reverse
reverse_forgotten(o) == o

\* mutant of reverse: Greater is left as it is
reverse_keeps_greater(o) == IF o = "Less" THEN "Greater" ELSE o

\* Ordering::reverse
reverse(o) ==
    CASE o = "Less" -> "Greater"
      [] o = "Greater" -> "Less"
      [] OTHER -> o

\* mutant of cmp_range_scope: the Range's upper bound taken as inclusive
cmp_range_scope_closed(r0, r1, s0, s1) ==
    IF r1 < s0 THEN "Less" ELSE IF r0 > s1 THEN "Greater" ELSE "Equal"

\* the (Range, Scope) arm of Ord::cmp, also used reversed by the (Scope, Range) arm
cmp_range_scope(r0, r1, s0, s1) ==
    IF r1 <= s0 THEN "Less" ELSE IF r0 > s1 THEN "Greater" ELSE "Equal"

\* mutant of cmp: the (Scope, Scope) arm copies the tests of the (Range, Range) arm
cmp_scope_open(x, y) ==
    CASE x.tag = "Scope" /\ y.tag = "Scope" ->
            IF ~(x.lo <= x.hi) \/ ~(y.lo <= y.hi) THEN "Panic"
            ELSE IF x.hi <= y.lo THEN "Less"
            ELSE IF x.lo >= y.hi THEN "Greater" ELSE "Equal"
      [] x.tag = "Range" /\ y.tag = "Range" ->
            IF ~(x.lo < x.hi) \/ ~(y.lo < y.hi) THEN "Panic"
            ELSE IF x.hi <= y.lo THEN "Less"
            ELSE IF x.lo >= y.hi THEN "Greater" ELSE "Equal"
      [] x.tag = "Range" /\ y.tag = "Scope" ->
            IF ~(x.lo < x.hi) \/ ~(y.lo <= y.hi) THEN "Panic"
            ELSE cmp_range_scope(x.lo, x.hi, y.lo, y.hi)
      [] x.tag = "Scope" /\ y.tag = "Range" ->
            IF ~(x.lo <= x.hi) \/ ~(y.lo < y.hi) THEN "Panic"
            ELSE reverse(cmp_range_scope(y.lo, y.hi, x.lo, x.hi))

\* mutant of cmp: the (Range, Range) arm takes the upper bound as inclusive
cmp_range_closed(x, y) ==
    CASE x.tag = "Scope" /\ y.tag = "Scope" ->
            IF ~(x.lo <= x.hi) \/ ~(y.lo <= y.hi) THEN "Panic"
            ELSE IF x.hi < y.lo THEN "Less"
            ELSE IF x.lo > y.hi THEN "Greater" ELSE "Equal"
      [] x.tag = "Range" /\ y.tag = "Range" ->
            IF ~(x.lo < x.hi) \/ ~(y.lo < y.hi) THEN "Panic"
            ELSE IF x.hi < y.lo THEN "Less"
            ELSE IF x.lo > y.hi THEN "Greater" ELSE "Equal"
      [] x.tag = "Range" /\ y.tag = "Scope" ->
            IF ~(x.lo < x.hi) \/ ~(y.lo <= y.hi) THEN "Panic"
            ELSE cmp_range_scope(x.lo, x.hi, y.lo, y.hi)
      [] x.tag = "Scope" /\ y.tag = "Range" ->
            IF ~(x.lo <= x.hi) \/ ~(y.lo < y.hi) THEN "Panic"
            ELSE reverse(cmp_range_scope(y.lo, y.hi, x.lo, x.hi))

\* impl Ord for Interval: "Panic" stands for a failed assert_eq!
cmp(x, y) ==
    CASE x.tag = "Scope" /\ y.tag = "Scope" ->
            IF ~(x.lo <= x.hi) \/ ~(y.lo <= y.hi) THEN "Panic"
            ELSE IF x.hi < y.lo THEN "Less"
            ELSE IF x.lo > y.hi THEN "Greater" ELSE "Equal"
      [] x.tag = "Range" /\ y.tag = "Range" ->
            IF ~(x.lo < x.hi) \/ ~(y.lo < y.hi) THEN "Panic"
            ELSE IF x.hi <= y.lo THEN "Less"
            ELSE IF x.lo >= y.hi THEN "Greater" ELSE "Equal"
      [] x.tag = "Range" /\ y.tag = "Scope" ->
            IF ~(x.lo < x.hi) \/ ~(y.lo <= y.hi) THEN "Panic"
            ELSE cmp_range_scope(x.lo, x.hi, y.lo, y.hi)
      [] x.tag = "Scope" /\ y.tag = "Range" ->
            IF ~(x.lo <= x.hi) \/ ~(y.lo < y.hi) THEN "Panic"
            ELSE reverse(cmp_range_scope(y.lo, y.hi, x.lo, x.hi))

\* ------------------------------------------------------------ BTreeMap
\* mutant of search_tree: the lookup goes down on the wrong side of the pivot
RECURSIVE search_tree_wrong_side(_, _, _, _)
search_tree_wrong_side(m, probe, lo, hi) ==
    IF lo > hi THEN {[kind |-> "GoDown", idx |-> lo]}
    ELSE UNION { LET c == cmp(probe, m[i].key) IN
                 CASE c = "Equal" -> {[kind |-> "Found", idx |-> i]}
                   [] c = "Less" -> search_tree_wrong_side(m, probe, i + 1, hi)
                   [] c = "Greater" -> search_tree_wrong_side(m, probe, lo, i - 1)
                   [] OTHER -> {[kind |-> "Panic", idx |-> 0]}
                 : i \in lo..hi }

\* The map is the BTreeMap's content in tree (iteration) order: a sequence of
\* [key, val] entries.  A lookup compares the probe with stored keys, each
\* comparison taken inside the range the earlier ones left, and stops at the
\* first Equal; the shape of the tree decides which keys are compared, so the
\* pivot is any key of the current range.  idx of GoDown is the leaf position
\* a new entry is put at.
RECURSIVE search_tree(_, _, _, _)
search_tree(m, probe, lo, hi) ==
    IF lo > hi THEN {[kind |-> "GoDown", idx |-> lo]}
    ELSE UNION { LET c == cmp(probe, m[i].key) IN
                 CASE c = "Equal" -> {[kind |-> "Found", idx |-> i]}
                   [] c = "Less" -> search_tree(m, probe, lo, i - 1)
                   [] c = "Greater" -> search_tree(m, probe, i + 1, hi)
                   [] OTHER -> {[kind |-> "Panic", idx |-> 0]}
                 : i \in lo..hi }

search(m, probe) == search_tree(m, probe, 1, Len(m))

\* mutant of InsertAt: the new entry goes to the front of the tree order
InsertAt_front(m, i, e) == <<e>> \o m

InsertAt(m, i, e) == SubSeq(m, 1, i - 1) \o <<e>> \o SubSeq(m, i, Len(m))
RemoveAt(m, i) == SubSeq(m, 1, i - 1) \o SubSeq(m, i + 1, Len(m))

\* ------------------------------------------------------------ results
Ok == [kind |-> "Ok"]
Invalid(k0, k1) == [kind |-> "Invalid", kk |-> <<k0, k1>>]
Conflict(k0, k1) == [kind |-> "Conflict", kk |-> <<k0, k1>>]
None == [kind |-> "None"]
Some(v) == [kind |-> "Some", v |-> v]
SomeKV(k, v) == [kind |-> "Some", k |-> k, v |-> v]
Panic == [kind |-> "Panic"]

Outcome(m, r) == [map |-> m, res |-> r]

\* ------------------------------------------------------ IntervalTreeMap
\* mutant of _insert: an occupied entry gets the new value (as BTreeMap::insert does)
insert_overwrite(m, key, value) ==
    { CASE s.kind = "GoDown" ->
               Outcome(InsertAt(m, s.idx, [key |-> key, val |-> value]), Ok)
        [] s.kind = "Found" ->
               Outcome([m EXCEPT ![s.idx].val = value], Conflict(key, m[s.idx].key))
        [] OTHER -> Outcome(m, Panic)
      : s \in search(m, key) }

\* mutant of _insert: a vacant entry is pushed at the end instead of at its place
insert_append(m, key, value) ==
    { CASE s.kind = "GoDown" -> Outcome(Append(m, [key |-> key, val |-> value]), Ok)
        [] s.kind = "Found" -> Outcome(m, Conflict(key, m[s.idx].key))
        [] OTHER -> Outcome(m, Panic)
      : s \in search(m, key) }

\* mutant of _insert: the two intervals of Conflict are swapped
insert_swapped(m, key, value) ==
    { CASE s.kind = "GoDown" ->
               Outcome(InsertAt(m, s.idx, [key |-> key, val |-> value]), Ok)
        [] s.kind = "Found" -> Outcome(m, Conflict(m[s.idx].key, key))
        [] OTHER -> Outcome(m, Panic)
      : s \in search(m, key) }

\* fn _insert: match self.map.entry(key) { Vacant => insert, Occupied => Conflict }
_insert(m, key, value) ==
    { CASE s.kind = "GoDown" ->
               Outcome(InsertAt(m, s.idx, [key |-> key, val |-> value]), Ok)
        [] s.kind = "Found" -> Outcome(m, Conflict(key, m[s.idx].key))
        [] OTHER -> Outcome(m, Panic)
      : s \in search(m, key) }

\* mutant of insert_interval: the Range(a, a) arm is missing
insert_interval_no_empty_range(m, key, value) ==
    IF key.tag = "Scope" /\ key.lo > key.hi
        THEN {Outcome(m, Invalid(key, Scope(key.hi, key.lo)))}
    ELSE IF key.tag = "Range" /\ key.lo > key.hi
        THEN {Outcome(m, Invalid(key, Range(key.hi, key.lo)))}
    ELSE _insert(m, key, value)

\* pub fn insert_interval
insert_interval(m, key, value) ==
    IF key.tag = "Scope" /\ key.lo > key.hi
        THEN {Outcome(m, Invalid(key, Scope(key.hi, key.lo)))}
    ELSE IF key.tag = "Range" /\ key.lo > key.hi
        THEN {Outcome(m, Invalid(key, Range(key.hi, key.lo)))}
    ELSE IF key.tag = "Range" /\ key.lo = key.hi
        THEN {Outcome(m, Invalid(key, Scope(key.lo, key.hi)))}
    ELSE _insert(m, key, value)

\* pub fn insert_range / insert_scope / insert_point
insert_range(m, left, right, value) == insert_interval(m, Range(left, right), value)
insert_scope(m, left, right, value) == insert_interval(m, Scope(left, right), value)
insert_point(m, point, value) == insert_interval(m, Scope(point, point), value)

\* mutant of insert: left = right is sent to the Range branch
insert_le(m, left, right, value) ==
    IF left <= right THEN _insert(m, Range(left, right), value)
    ELSE {Outcome(m, Invalid(Range(left, right), Range(right, left)))}

\* pub fn insert (deprecated)
insert(m, left, right, value) ==
    IF left < right THEN _insert(m, Range(left, right), value)
    ELSE IF left = right THEN _insert(m, Scope(left, right), value)
    ELSE {Outcome(m, Invalid(Range(left, right), Range(right, left)))}

\* pub fn query: self.map.get(&Scope(point, point))
query(m, point) ==
    { CASE s.kind = "Found" -> Outcome(m, Some(m[s.idx].val))
        [] s.kind = "GoDown" -> Outcome(m, None)
        [] OTHER -> Outcome(m, Panic)
      : s \in search(m, Scope(point, point)) }

\* pub fn get_key_value: self.map.get_key_value(&Scope(point, point))
get_key_value(m, point) ==
    { CASE s.kind = "Found" -> Outcome(m, SomeKV(m[s.idx].key, m[s.idx].val))
        [] s.kind = "GoDown" -> Outcome(m, None)
        [] OTHER -> Outcome(m, Panic)
      : s \in search(m, Scope(point, point)) }

\* fn _remove: self.map.remove(&key)
_remove(m, key) ==
    { CASE s.kind = "Found" -> Outcome(RemoveAt(m, s.idx), Some(m[s.idx].val))
        [] s.kind = "GoDown" -> Outcome(m, None)
        [] OTHER -> Outcome(m, Panic)
      : s \in search(m, key) }

\* mutant of remove_interval: the stored key is not compared with the argument
remove_interval_any_overlap(m, key) ==
    UNION { CASE s.kind = "Found" -> _remove(m, key)
              [] s.kind = "GoDown" -> {Outcome(m, None)}
              [] OTHER -> {Outcome(m, Panic)}
            : s \in search(m, key) }

\* pub fn remove_interval
remove_interval(m, key) ==
    UNION { CASE s.kind = "Found" ->
                   IF m[s.idx].key = key THEN _remove(m, key) ELSE {Outcome(m, None)}
              [] s.kind = "GoDown" -> {Outcome(m, None)}
              [] OTHER -> {Outcome(m, Panic)}
            : s \in search(m, key) }

\* pub fn len
len(m) == Len(m)


\* ------------------------------------------------------------ state
VARIABLES
    map,    \* IntervalTreeMap.map, in tree order
    call,   \* the call that has just returned: [op, key, val]; NoCall between calls
    ret,    \* what it returned
    old,    \* the map it was called on
    live,   \* the pairs inserted with Ok and not removed with Some since
    cx,     \* Ord::cmp: self
    cy,     \* Ord::cmp: other
    ord,    \* Ord::cmp: the Ordering returned, "none" before the call
    batch,  \* two orders: the disjoint (interval, value) pairs to insert
    tree1,  \* two orders: the map filled in the first order
    done1,  \* two orders: the pairs inserted into tree1, in order
    tree2,  \* two orders: the map filled in the second order
    done2,  \* two orders: the pairs inserted into tree2, in order
    allOk,  \* two orders: every insert so far returned Ok
    pin,    \* FromStr for Interval<IPv4> / Interval<IPv6>: the text, parsed into its parts
    pout,   \* FromStr: the Result returned, "none" before the call
    ltree,  \* load_from_dir: the map loaded into
    lpos,   \* load_from_dir: [file, line] being read, file 0 before the first entry
    lstat,  \* load_from_dir: "loading", or the Result returned: "ok" / "err"
    lacc,   \* load_from_dir: the records add_entity has accepted, in order
    lrej    \* load_from_dir: the records add_entity has rejected, in order

mapVars == <<map, call, ret, old, live>>
cmpVars == <<cx, cy, ord>>
permVars == <<batch, tree1, done1, tree2, done2, allOk>>
parseVars == <<pin, pout>>
loadVars == <<ltree, lpos, lstat, lacc, lrej>>
vars == <<mapVars, cmpVars, permVars, parseVars, loadVars>>

Call(op, key, val) == [op |-> op, key |-> key, val |-> val]

\* the five inserting pub fns
InsertOps == {"insert_interval", "insert_range", "insert_scope", "insert_point", "insert"}

NoCall == Call("none", Scope(0, 0), "-")

\* IntervalTreeMap::new()
InitMap ==
    /\ map = <<>>
    /\ call = NoCall
    /\ ret = None
    /\ old = <<>>
    /\ live = {}

InitCmp ==
    /\ cx = Scope(0, 0)
    /\ cy = Scope(0, 0)
    /\ ord = "none"

InitPerm ==
    /\ batch = {}
    /\ tree1 = <<>>
    /\ done1 = <<>>
    /\ tree2 = <<>>
    /\ done2 = <<>>
    /\ allOk = TRUE

\* no text parsed yet
InitParse ==
    /\ pin = [family |-> "none", long |-> FALSE, form |-> "bare",
              a |-> -1, b |-> -1, dot |-> FALSE, colon |-> FALSE]
    /\ pout = [kind |-> "none"]

\* IpTree::new(), load_from_dir not yet called
InitLoad ==
    /\ ltree = [ipv4 |-> <<>>, ipv6 |-> <<>>]
    /\ lpos = [file |-> 0, line |-> 0]
    /\ lstat = "loading"
    /\ lacc = {}
    /\ lrej = <<>>

Init == InitMap /\ InitCmp /\ InitPerm /\ InitParse /\ InitLoad

\* a panic aborts the program
Running == ret.kind # "Panic"

\* one call on the map by its single-threaded owner, from entry to return
Do(c, outs) ==
    /\ call = NoCall
    /\ \E o \in outs :
        /\ map' = o.map
        /\ ret' = o.res
    /\ call' = c
    /\ old' = map
    /\ live' = IF c.op \in InsertOps /\ ret'.kind = "Ok"
                THEN live \cup {[key |-> c.key, val |-> c.val]}
             ELSE IF c.op = "remove_interval" /\ ret'.kind = "Some"
                THEN {e \in live : e.key # c.key}
             ELSE live
    /\ UNCHANGED <<cmpVars, permVars, parseVars, loadVars>>

InsertInterval ==
    \E key \in Interval, v \in Values :
        Do(Call("insert_interval", key, v), insert_interval(map, key, v))

InsertRange ==
    \E l \in Points, r \in Points, v \in Values :
        Do(Call("insert_range", Range(l, r), v), insert_range(map, l, r, v))

InsertScope ==
    \E l \in Points, r \in Points, v \in Values :
        Do(Call("insert_scope", Scope(l, r), v), insert_scope(map, l, r, v))

InsertPoint ==
    \E p \in Points, v \in Values :
        Do(Call("insert_point", Scope(p, p), v), insert_point(map, p, v))

\* the key recorded for the deprecated insert is the one its code builds
InsertDeprecated ==
    \E l \in Points, r \in Points, v \in Values :
        Do(Call("insert", IF l = r THEN Scope(l, r) ELSE Range(l, r), v),
           insert(map, l, r, v))

Query ==
    \E p \in Points : Do(Call("query", Scope(p, p), "-"), query(map, p))

GetKeyValue ==
    \E p \in Points :
        Do(Call("get_key_value", Scope(p, p), "-"), get_key_value(map, p))

RemoveInterval ==
    \E key \in Interval :
        Do(Call("remove_interval", key, "-"), remove_interval(map, key))

\* the caller is done with the returned value; a panic is never returned from
Return ==
    /\ call # NoCall
    /\ Running
    /\ call' = NoCall
    /\ ret' = None
    /\ old' = map
    /\ UNCHANGED <<map, live, cmpVars, permVars, parseVars, loadVars>>

Next ==
    \/ InsertInterval
    \/ InsertRange
    \/ InsertScope
    \/ InsertPoint
    \/ InsertDeprecated
    \/ Query
    \/ GetKeyValue
    \/ RemoveInterval
    \/ Return

Spec == Init /\ [][Next]_vars

\* ---------------------------------------------------------- vocabulary
\* the points an interval covers: lo <= x < hi for Range, lo <= x <= hi for Scope
Covered(k) ==
    IF k.tag = "Range" THEN {x \in Points : k.lo <= x /\ x < k.hi}
    ELSE {x \in Points : k.lo <= x /\ x <= k.hi}

WellFormed(k) == IF k.tag = "Range" THEN k.lo < k.hi ELSE k.lo <= k.hi

Intersects(a, b) == Covered(a) \cap Covered(b) # {}

Keys(m) == {m[i].key : i \in 1..Len(m)}
Entries(m) == {m[i] : i \in 1..Len(m)}

\* ------------------------------------------------------------- claims

\* C1: after any sequence of insert_interval / insert_range / insert_scope /
\* insert_point / insert / remove_interval calls, successful or failing, no two
\* distinct stored keys intersect, and the comparator never returns Equal for
\* two distinct stored keys.
C1_stored_keys_disjoint ==
    \A i \in 1..Len(map) : \A j \in 1..Len(map) :
        i # j => /\ ~Intersects(map[i].key, map[j].key)
                 /\ cmp(map[i].key, map[j].key) # "Equal"

\* C1 witness: a map of three keys, two of them touching, has just refused an
\* insert that intersects it.
C1_witness ==
    /\ Len(map) = 3
    /\ call.op \in InsertOps
    /\ ret.kind = "Conflict"
    /\ \E i \in 1..Len(map) : \E j \in 1..Len(map) :
          map[i].key.tag = "Range" /\ map[i].key.hi = map[j].key.lo

\* what a lookup of point x in map m is to return
Covering(m, x) == {i \in 1..Len(m) : x \in Covered(m[i].key)}

\* C2: in every reachable map (between two calls) and for every point x, query(x) returns the value
\* of the unique stored interval covering x and None when none does, and
\* get_key_value(x) returns that interval with the same value; the call that
\* has just returned obeyed this.
C2_query_returns_covering ==
    /\ call = NoCall => \A x \in Points :
        /\ Cardinality(Covering(map, x)) <= 1
        /\ Covering(map, x) = {} =>
              /\ query(map, x) = {Outcome(map, None)}
              /\ get_key_value(map, x) = {Outcome(map, None)}
        /\ \A i \in Covering(map, x) :
              /\ query(map, x) = {Outcome(map, Some(map[i].val))}
              /\ get_key_value(map, x) = {Outcome(map, SomeKV(map[i].key, map[i].val))}
    /\ call.op \in {"query", "get_key_value"} =>
        /\ map = old
        /\ Covering(old, call.key.lo) = {} => ret = None
        /\ \A i \in Covering(old, call.key.lo) :
              ret = IF call.op = "query" THEN Some(old[i].val)
                    ELSE SomeKV(old[i].key, old[i].val)

\* C2 witness: with Range(lo, x) and Scope(x, hi) both stored, query(x) has
\* returned the value of the Scope, not of the Range.
C2_witness ==
    /\ call.op = "query"
    /\ \E i \in 1..Len(map) : \E j \in 1..Len(map) :
        /\ map[i].key.tag = "Range" /\ map[i].key.hi = call.key.lo
        /\ map[j].key.tag = "Scope" /\ map[j].key.lo = call.key.lo
        /\ map[i].val # map[j].val
        /\ ret = Some(map[j].val)

\* what insert_interval of a well-formed key is to do on map m
InsertDecided(m, key, v, o) ==
    LET hit == \E i \in 1..Len(m) : Intersects(key, m[i].key) IN
    /\ o.res.kind = "Conflict" <=> hit
    /\ ~hit => /\ o.res = Ok
               /\ Entries(o.map) = Entries(m) \cup {[key |-> key, val |-> v]}
               /\ Len(o.map) = Len(m) + 1

\* C3: for every reachable map and every well-formed candidate, insert_interval
\* returns Conflict iff the candidate intersects a stored interval (several of
\* them, or one at a shared closed endpoint, included), and otherwise returns
\* Ok and stores the candidate with its value; so the second of two inserts
\* into an empty map fails exactly when the two intervals intersect.
C3_conflict_iff_intersects ==
    /\ call = NoCall => \A key \in Interval : \A v \in Values :
          WellFormed(key) =>
              \A o \in insert_interval(map, key, v) : InsertDecided(map, key, v, o)
    /\ (call.op = "insert_interval" /\ WellFormed(call.key)) =>
          InsertDecided(old, call.key, call.val, [map |-> map, res |-> ret])

\* C3 witness: an insert_interval has been refused with Conflict for a candidate
\* that intersects two stored intervals, one of them only at a closed endpoint.
C3_witness ==
    /\ call.op = "insert_interval"
    /\ ret.kind = "Conflict"
    /\ Cardinality({i \in 1..Len(old) : Intersects(call.key, old[i].key)}) >= 2
    /\ \E i \in 1..Len(old) :
          Covered(call.key) \cap Covered(old[i].key) = {call.key.hi}

\* C4: an insert that returns Invalid or Conflict leaves the map as it was: the
\* same (interval, value) pairs, the same len(); re-inserting a stored interval
\* with another value does not overwrite it.
C4_failed_insert_keeps_map ==
    /\ call = NoCall => \A key \in Interval : \A v \in Values :
          \A o \in insert_interval(map, key, v) \cup insert(map, key.lo, key.hi, v) :
              o.res.kind \in {"Invalid", "Conflict"} => o.map = map
    /\ (call.op \in InsertOps /\ ret.kind \in {"Invalid", "Conflict"}) =>
          /\ map = old
          /\ len(map) = len(old)

\* C4 witness: an insert of an already stored interval with a different value
\* has returned Conflict.
C4_witness ==
    /\ call.op \in InsertOps
    /\ ret.kind = "Conflict"
    /\ \E i \in 1..Len(old) : old[i].key = call.key /\ old[i].val # call.val

\* what remove_interval(k) on map m is to do: remove the entry whose key is
\* structurally k and return its value, or return None and change nothing
RemoveDecided(m, k, o) ==
    IF k \in Keys(m)
    THEN \E i \in 1..Len(m) :
            /\ m[i].key = k
            /\ o.res = Some(m[i].val)
            /\ Entries(o.map) = Entries(m) \ {m[i]}
            /\ Len(o.map) = Len(m) - 1
            /\ \A x \in Covered(k) : query(o.map, x) = {Outcome(o.map, None)}
    ELSE o.res = None /\ o.map = m

\* C5: remove_interval(k) returns Some(v) and deletes the entry iff a stored key
\* is structurally equal to k; for any other argument it returns None and the
\* map is unchanged.
C5_remove_exact_only ==
    call.op = "remove_interval" => RemoveDecided(old, call.key, [map |-> map, res |-> ret])

\* The same for the well-formed arguments alone (Range lo < hi, Scope lo <= hi),
\* in every reachable map and for the call that has just returned.
C5_remove_exact_only_wellformed ==
    /\ call = NoCall => \A k \in Interval : WellFormed(k) =>
          \A o \in remove_interval(map, k) : RemoveDecided(map, k, o)
    /\ (call.op = "remove_interval" /\ WellFormed(call.key)) =>
          RemoveDecided(old, call.key, [map |-> map, res |-> ret])

\* what insert_interval's validation is to answer for key on map m
ValidationDecided(m, key, o) ==
    /\ (key.tag = "Scope" /\ key.lo > key.hi) =>
          o = Outcome(m, Invalid(key, Scope(key.hi, key.lo)))
    /\ (key.tag = "Range" /\ key.lo > key.hi) =>
          o = Outcome(m, Invalid(key, Range(key.hi, key.lo)))
    /\ (key.tag = "Range" /\ key.lo = key.hi) =>
          o = Outcome(m, Invalid(key, Scope(key.lo, key.hi)))
    /\ WellFormed(key) => o.res.kind \in {"Ok", "Conflict"}

\* C6: insert_interval checks well-formedness before touching the map:
\* Scope(a,b) with a > b, Range(a,b) with a > b and Range(a,a) return Invalid
\* with the offending interval and Scope(b,a), Range(b,a), Scope(a,a) as the
\* replacement, the map untouched; every well-formed interval passes validation.
C6_invalid_before_map ==
    /\ call = NoCall => \A key \in Interval : \A v \in Values :
          \A o \in insert_interval(map, key, v) : ValidationDecided(map, key, o)
    /\ call.op = "insert_interval" =>
          ValidationDecided(old, call.key, [map |-> map, res |-> ret])

\* C6 witness: on a non-empty map insert_interval(Range(a, a)) has returned
\* Invalid with Scope(a, a) as the replacement.
C6_witness ==
    /\ call.op = "insert_interval"
    /\ Len(old) >= 1
    /\ call.key.tag = "Range" /\ call.key.lo = call.key.hi
    /\ ret = Invalid(call.key, Scope(call.key.lo, call.key.lo))
    /\ map = old

\* C7: for any sequence of public map operations with arbitrary arguments,
\* malformed intervals included, the assertions of the comparator never fail:
\* no call panics.
C7_never_panics == ret.kind # "Panic"

\* C7 for every operation but remove_interval: none of them panics.
C7_only_remove_interval_panics == ret.kind = "Panic" => call.op = "remove_interval"

\* what a Conflict returned by an insert of key on map m is to carry
ConflictDecided(m, key, v, o) ==
    o.res.kind = "Conflict" =>
        LET c == o.res.kk[1]
            e == o.res.kk[2] IN
        /\ c = key
        /\ e \in Keys(m)
        /\ Intersects(c, e)
        /\ o.map = m
        /\ {k \in Keys(m) : Intersects(c, k)} = {e} =>
              \A r \in remove_interval(o.map, e) :
                  /\ r.res.kind = "Some"
                  /\ \A i \in insert_interval(r.map, c, v) :
                        /\ i.res = Ok
                        /\ [key |-> c, val |-> v] \in Entries(i.map)

\* C10: whenever an insert returns Conflict([c, e]), c is the candidate passed
\* in and e is an interval stored at that moment that intersects c; when e is
\* the only stored interval intersecting c, remove_interval(e) followed by the
\* same insert succeeds.
C10_conflict_names_stored_key ==
    /\ call = NoCall => \A key \in Interval : \A v \in Values :
          \A o \in insert_interval(map, key, v) : ConflictDecided(map, key, v, o)
    /\ call = NoCall => \A l \in Points : \A r \in Points : \A v \in Values :
          \A o \in insert(map, l, r, v) :
              ConflictDecided(map, IF l = r THEN Scope(l, r) ELSE Range(l, r), v, o)
    /\ call.op \in InsertOps =>
          ConflictDecided(old, call.key, call.val, [map |-> map, res |-> ret])

\* C10 witness: an insert has returned Conflict([c, e]) with e the only stored
\* interval intersecting c, e different from c, and another key stored beside it.
C10_witness ==
    /\ call.op \in InsertOps
    /\ ret.kind = "Conflict"
    /\ ret.kk[1] # ret.kk[2]
    /\ {k \in Keys(old) : Intersects(call.key, k)} = {ret.kk[2]}
    /\ Len(old) >= 2

\* ------------------------------------------------- the comparator alone
\* Ord::cmp applied to one pair of intervals
InitCompare ==
    /\ InitMap
    /\ InitPerm
    /\ InitParse
    /\ InitLoad
    /\ cx \in Interval
    /\ cy \in Interval
    /\ ord = "none"

Compare ==
    /\ ord = "none"
    /\ ord' = cmp(cx, cy)
    /\ UNCHANGED <<cx, cy, mapVars, permVars, parseVars, loadVars>>

NextCompare == Compare

SpecCompare == InitCompare /\ [][NextCompare]_vars

\* every point of a is below every point of b
Below(a, b) == \A p \in Covered(a) : \A q \in Covered(b) : p < q

\* C8: for well-formed A and B in all four variant combinations, cmp(A,B) is
\* Equal iff the covered sets intersect, Less iff every point of A is below
\* every point of B, Greater iff every point of A is above every point of B.
C8_cmp_is_overlap_order ==
    (ord # "none" /\ WellFormed(cx) /\ WellFormed(cy)) =>
        /\ ord \in {"Less", "Equal", "Greater"}
        /\ ord = "Equal" <=> Intersects(cx, cy)
        /\ ord = "Less" <=> Below(cx, cy)
        /\ ord = "Greater" <=> Below(cy, cx)

\* C8 witness: a Scope compared with the Range that ends, exclusively, where
\* the Scope begins is Greater.
C8_witness ==
    /\ ord = "Greater"
    /\ cx.tag = "Scope" /\ cy.tag = "Range"
    /\ WellFormed(cx) /\ WellFormed(cy)
    /\ cy.hi = cx.lo

\* ------------------------------------- one batch inserted in two orders
\* the sets of at most n well-formed, pairwise disjoint intervals with values
RECURSIVE DisjointBatches(_)
DisjointBatches(n) ==
    IF n = 0 THEN {{}}
    ELSE LET B == DisjointBatches(n - 1)
             fits(b) == {e \in [key : {k \in Interval : WellFormed(k)}, val : Values] :
                            \A f \in b : ~Intersects(e.key, f.key)}
         IN B \cup UNION {{b \cup {e} : e \in fits(b)} : b \in B}

Inserted(done) == {done[i] : i \in 1..Len(done)}

InitOrders ==
    /\ InitMap
    /\ InitCmp
    /\ InitParse
    /\ InitLoad
    /\ batch \in DisjointBatches(MaxBatch)
    /\ tree1 = <<>>
    /\ done1 = <<>>
    /\ tree2 = <<>>
    /\ done2 = <<>>
    /\ allOk = TRUE

\* the next insert_interval of the first order: any pair not yet inserted
InsertFirst ==
    \E e \in batch \ Inserted(done1) :
        \E o \in insert_interval(tree1, e.key, e.val) :
            /\ tree1' = o.map
            /\ done1' = Append(done1, e)
            /\ allOk' = (allOk /\ o.res = Ok)
            /\ UNCHANGED <<batch, tree2, done2, mapVars, cmpVars, parseVars, loadVars>>

\* the second order starts on a new map once the first is through
InsertSecond ==
    /\ Inserted(done1) = batch
    /\ \E e \in batch \ Inserted(done2) :
        \E o \in insert_interval(tree2, e.key, e.val) :
            /\ tree2' = o.map
            /\ done2' = Append(done2, e)
            /\ allOk' = (allOk /\ o.res = Ok)
            /\ UNCHANGED <<batch, tree1, done1, mapVars, cmpVars, parseVars, loadVars>>

NextOrders == InsertFirst \/ InsertSecond

SpecOrders == InitOrders /\ [][NextOrders]_vars

\* C9: well-formed, pairwise disjoint intervals with values inserted into an
\* empty map in any permutation all succeed, and two permutations of the same
\* batch end with the same ordered sequence of (interval, value) pairs.
C9_order_independent ==
    /\ allOk
    /\ Entries(tree1) = Inserted(done1)
    /\ (Inserted(done1) = batch /\ Inserted(done2) = batch) => tree1 = tree2

\* C9 witness: three pairs have been inserted in one order and in the reverse
\* order.
C9_witness ==
    /\ Cardinality(batch) = 3
    /\ Len(done1) = 3 /\ Len(done2) = 3
    /\ done2 = <<done1[3], done1[2], done1[1]>>
    /\ tree1 # done1
    /\ tree2 # done2

\* ---------------------------------------------------- claims, continued

\* C11: the stored key set evolves only by whole intervals: len() grows by one
\* on each successful insert, shrinks by one on each successful
\* remove_interval and is otherwise constant, and the stored pairs are exactly
\* the pairs successfully inserted and not yet removed, each with its original
\* variant, bounds and value.
C11_stored_is_inserted_not_removed ==
    /\ Entries(map) = live
    /\ len(map) = Cardinality(live)
    /\ (call.op \in InsertOps /\ ret.kind = "Ok") => len(map) = len(old) + 1
    /\ (call.op = "remove_interval" /\ ret.kind = "Some") =>
          /\ len(map) = len(old) - 1
          /\ [key |-> call.key, val |-> ret.v] \in Entries(old)
    /\ ~(call.op \in InsertOps /\ ret.kind = "Ok")
          /\ ~(call.op = "remove_interval" /\ ret.kind = "Some") => map = old

\* C11 witness: beside two stored neighbours with the same value, Range(a, b)
\* and an interval starting at b, a third interval has just been removed.
C11_witness ==
    /\ call.op = "remove_interval"
    /\ ret.kind = "Some"
    /\ Len(map) = 2
    /\ map[1].key.tag = "Range"
    /\ map[1].key.hi = map[2].key.lo
    /\ map[1].val = map[2].val


\* the exclusive upper bound of a Range and the inclusive one of a Scope, as
\* the tests of ascending iteration compare them with the next lower bound
StartsAfter(k1, k2) ==
    IF k1.tag = "Range" THEN k2.lo >= k1.hi ELSE k2.lo > k1.hi

\* C12: in every reachable state, iterating the map through tree() yields the
\* stored intervals in ascending order with no overlap between neighbours: for
\* each consecutive pair (k1, k2) every point of k1 is strictly below every
\* point of k2 (the lower bound of k2 is at or above the exclusive upper bound,
\* or strictly above the inclusive upper bound, of k1).
C12_tree_ascending_disjoint ==
    \A i \in 1..(Len(map) - 1) :
        /\ Below(map[i].key, map[i + 1].key)
        /\ StartsAfter(map[i].key, map[i + 1].key)
        /\ cmp(map[i].key, map[i + 1].key) = "Less"

\* C12 witness: an entry has just been inserted between two stored ones, a
\* Range on one side of it and a Scope on the other.
C12_witness ==
    /\ call.op \in InsertOps
    /\ ret = Ok
    /\ Len(map) = 3
    /\ map[2].key = call.key
    /\ map[1].key.tag = "Range"
    /\ map[3].key.tag = "Scope"


\* the Interval that insert(left, right, value) is said to stand for
AsInterval(left, right) ==
    IF left = right THEN Scope(left, right) ELSE Range(left, right)

\* C13: the deprecated insert(left, right, value) behaves exactly like
\* insert_interval(Range(left, right), value) when left < right, exactly like
\* insert_interval(Scope(left, right), value) when left = right, and returns
\* Invalid without touching the map when left > right; the resulting map and
\* return value agree in every reachable state.
C13_insert_is_insert_interval ==
    /\ call = NoCall =>
          \A l \in Points, r \in Points, v \in Values :
              /\ l <= r => insert(map, l, r, v)
                              = insert_interval(map, AsInterval(l, r), v)
              /\ l > r => \A o \in insert(map, l, r, v) :
                              o.res.kind = "Invalid" /\ o.map = map
    /\ call.op = "insert" =>
          /\ call.key.lo <= call.key.hi =>
                Outcome(map, ret) \in insert_interval(old, call.key, call.val)
          /\ call.key.lo > call.key.hi =>
                ret.kind = "Invalid" /\ map = old

\* C13 witness: insert(p, p, v) has stored a Scope next to an entry the map
\* already held.
C13_witness ==
    /\ call.op = "insert"
    /\ call.key.lo = call.key.hi
    /\ ret = Ok
    /\ Len(old) >= 1
    /\ [key |-> Scope(call.key.lo, call.key.hi), val |-> call.val] \in Entries(map)


\* the positions of the stored keys that compare Equal to a probe
EqualRun(m, probe) == {i \in 1..Len(m) : cmp(probe, m[i].key) = "Equal"}

\* C18: the ordered-map search stays valid for a probe that is not itself a
\* stored key: for any well-formed probe P and any two stored keys K1 below K2
\* of a reachable map, cmp(P,K1) = Less implies cmp(P,K2) = Less and
\* cmp(P,K2) = Greater implies cmp(P,K1) = Greater, so the stored keys that
\* compare Equal to P form one contiguous run in key order and a binary search
\* for P reaches one of them whenever the run is non-empty.
C18_search_valid_for_probe ==
    call = NoCall =>
        \A P \in {k \in Interval : WellFormed(k)} :
            /\ \A i \in 1..Len(map), j \in 1..Len(map) :
                  i < j =>
                     /\ cmp(P, map[i].key) = "Less" => cmp(P, map[j].key) = "Less"
                     /\ cmp(P, map[j].key) = "Greater" => cmp(P, map[i].key) = "Greater"
            /\ \A i \in EqualRun(map, P), j \in EqualRun(map, P) :
                  \A n \in i..j : n \in EqualRun(map, P)
            /\ \A s \in search(map, P) :
                  IF EqualRun(map, P) # {}
                  THEN s.kind = "Found" /\ s.idx \in EqualRun(map, P)
                  ELSE s.kind = "GoDown"

\* C18 witness: a map of three keys and a probe that is none of them, Equal to
\* the last two and Greater than the first.
C18_witness ==
    /\ call = NoCall
    /\ Len(map) = 3
    /\ \E P \in {k \in Interval : WellFormed(k)} :
          /\ P \notin Keys(map)
          /\ EqualRun(map, P) = {2, 3}
          /\ Cardinality({s.idx : s \in search(map, P)}) = 2


\* the keys of the batch and of the two maps built from it
Members == {e.key : e \in batch} \cup Keys(tree1) \cup Keys(tree2)

\* Less and Greater exchanged, written out for the comparison of cmp(A,B)
\* with cmp(B,A)
Opposite(o) ==
    IF o = "Less" THEN "Greater" ELSE IF o = "Greater" THEN "Less" ELSE "Equal"

\* three well-formed intervals on which Equal is not transitive
EqualNotTransitive ==
    \E A \in Interval, B \in Interval, C \in Interval :
        /\ WellFormed(A) /\ WellFormed(B) /\ WellFormed(C)
        /\ cmp(A, B) = "Equal"
        /\ cmp(B, C) = "Equal"
        /\ cmp(A, C) # "Equal"

\* C16: on any set of well-formed, pairwise non-intersecting intervals (such
\* as the stored keys of a reachable map) the comparator is a consistent
\* strict total order: two distinct members never compare Equal, cmp(A,B) is
\* always the reverse of cmp(B,A), and Less is transitive, although over
\* arbitrary well-formed intervals Equal is not transitive.
C16_cmp_total_order_on_disjoint ==
    /\ \A A \in Members, B \in Members :
          /\ cmp(A, B) \in {"Less", "Equal", "Greater"}
          /\ A # B => cmp(A, B) # "Equal"
          /\ cmp(A, B) = Opposite(cmp(B, A))
    /\ \A A \in Members, B \in Members, C \in Members :
          (cmp(A, B) = "Less" /\ cmp(B, C) = "Less") => cmp(A, C) = "Less"
    /\ EqualNotTransitive

\* C16 witness: a batch of three disjoint intervals of both variants, stored
\* in a map, a Scope below a Range below a Scope.
C16_witness ==
    /\ Cardinality(batch) = 3
    /\ Len(tree1) = 3
    /\ tree1[1].key.tag = "Scope"
    /\ tree1[2].key.tag = "Range"
    /\ tree1[3].key.tag = "Scope"


\* ------------------------------------------------ util.rs: from_str
\* The scalars are u32 (IPv4) and u128 (IPv6) and the last octet is 8 bits;
\* the model keeps the arithmetic and scales the widths.
V4Bits == 4
V6Bits == 5
OctetBits == 2

RECURSIVE Pow2(_)
Pow2(n) == IF n = 0 THEN 1 ELSE 2 * Pow2(n - 1)

\* u32::MAX / u128::MAX / 255 for a width of w bits
MaxOf(w) == Pow2(w) - 1

\* x & y on w bits
RECURSIVE BitAnd(_, _, _)
BitAnd(x, y, w) ==
    IF w = 0 THEN 0
    ELSE (x % 2) * (y % 2) + 2 * BitAnd(x \div 2, y \div 2, w - 1)

\* !x on w bits
BitNot(x, w) == MaxOf(w) - x

\* x + y on w bits: an overflow panics in a build with overflow checks and
\* wraps in one without
Add(x, y, w) ==
    IF x + y <= MaxOf(w) THEN {[ov |-> FALSE, v |-> x + y]}
    ELSE {[ov |-> TRUE, v |-> 0], [ov |-> FALSE, v |-> (x + y) % Pow2(w)]}

\* Result<Interval, Parse..ScopeError>; Interval(lo, hi) is closed
POk(lo, hi) == [kind |-> "Ok", lo |-> lo, hi |-> hi]
PErr == [kind |-> "Err"]
PPanic == [kind |-> "Panic"]

\* The text s by what the parser reads of it: long is s.len() over the limit,
\* form the separator found ('-' before '/'), a the address left of it (-1:
\* IPv4::from_str / IPv6::from_str fails), b what is right of it (-1: it does
\* not parse as an address, or as a u8), dot is b.contains('.'), colon is
\* s.contains(':').
Text(family, long, form, a, b, dot, colon) ==
    [family |-> family, long |-> long, form |-> form, a |-> a, b |-> b,
     dot |-> dot, colon |-> colon]

TextIPv4 ==
    {Text("ipv4", l, "bare", a, -1, FALSE, FALSE) :
        l \in BOOLEAN, a \in -1..MaxOf(V4Bits)}
    \cup {Text("ipv4", l, "cidr", a, n, FALSE, FALSE) :
        l \in BOOLEAN, a \in -1..MaxOf(V4Bits), n \in -1..(V4Bits + 1)}
    \cup {Text("ipv4", l, "dash", a, b, TRUE, FALSE) :
        l \in BOOLEAN, a \in -1..MaxOf(V4Bits), b \in -1..MaxOf(V4Bits)}
    \cup {Text("ipv4", l, "dash", a, n, FALSE, FALSE) :
        l \in BOOLEAN, a \in -1..MaxOf(V4Bits), n \in -1..MaxOf(OctetBits)}

\* an address text without ':' is no IPv6 address
TextIPv6 ==
    LET all ==
          {Text("ipv6", l, "bare", a, -1, FALSE, c) :
              l \in BOOLEAN, a \in -1..MaxOf(V6Bits), c \in BOOLEAN}
          \cup {Text("ipv6", l, "cidr", a, n, FALSE, c) :
              l \in BOOLEAN, a \in -1..MaxOf(V6Bits), n \in -1..(V6Bits + 1),
              c \in BOOLEAN}
    IN {t \in all : t.colon \/ t.a < 0}


\* mutant of cidr: the address is not masked
cidr_unmasked(ip, n, w) ==
    IF n = 0 THEN (IF ip = 0 THEN {POk(0, MaxOf(w))} ELSE {PErr})
    ELSE IF n = w THEN {POk(ip, ip)}
    ELSE IF n < w THEN
        LET add == (Pow2(w - n) % Pow2(w)) - 1
        IN {IF s.ov THEN PPanic ELSE POk(ip, s.v) : s \in Add(ip, add, w)}
    ELSE {PErr}

\* the arm of n: u8 after '/', for an address ip of w bits
cidr(ip, n, w) ==
    IF n = 0 THEN (IF ip = 0 THEN {POk(0, MaxOf(w))} ELSE {PErr})
    ELSE IF n = w THEN {POk(ip, ip)}
    ELSE IF n < w THEN
        LET add == (Pow2(w - n) % Pow2(w)) - 1
            mask == BitNot(add, w)
            ip0 == BitAnd(ip, mask, w)
        IN {IF s.ov THEN PPanic ELSE POk(ip0, s.v) : s \in Add(ip0, add, w)}
    ELSE {PErr}

\* impl FromStr for Interval<IPv4>
from_str_ipv4(s) ==
    IF s.long THEN {PErr}
    ELSE IF s.form = "dash" THEN
        IF s.a < 0 THEN {PErr}
        ELSE IF s.dot THEN (IF s.b < 0 THEN {PErr} ELSE {POk(s.a, s.b)})
        ELSE IF s.b < 0 THEN {PErr}
        ELSE {IF t.ov THEN PPanic ELSE POk(s.a, t.v) :
                t \in Add(BitAnd(s.a, BitNot(MaxOf(OctetBits), V4Bits), V4Bits),
                          s.b, V4Bits)}
    ELSE IF s.form = "cidr" THEN
        IF s.a < 0 \/ s.b < 0 THEN {PErr} ELSE cidr(s.a, s.b, V4Bits)
    ELSE IF s.a < 0 THEN {PErr} ELSE {POk(s.a, s.a)}

\* impl FromStr for Interval<IPv6>
from_str_ipv6(s) ==
    IF s.long \/ ~s.colon THEN {PErr}
    ELSE IF s.form = "cidr" THEN
        IF s.a < 0 \/ s.b < 0 THEN {PErr} ELSE cidr(s.a, s.b, V6Bits)
    ELSE IF s.a < 0 THEN {PErr} ELSE {POk(s.a, s.a)}

\* from_str is called with a text and returns; the result is in pout until
\* the caller has taken it
ParseIPv4 ==
    \E s \in TextIPv4 :
        /\ pout.kind = "none"
        /\ pin' = s
        /\ pout' \in from_str_ipv4(s)
        /\ UNCHANGED <<mapVars, cmpVars, permVars, loadVars>>

ParseIPv6 ==
    \E s \in TextIPv6 :
        /\ pout.kind = "none"
        /\ pin' = s
        /\ pout' \in from_str_ipv6(s)
        /\ UNCHANGED <<mapVars, cmpVars, permVars, loadVars>>

ParseReturn ==
    /\ pout.kind # "none"
    /\ pout' = [kind |-> "none"]
    /\ pin' = Text("none", FALSE, "bare", -1, -1, FALSE, FALSE)
    /\ UNCHANGED <<mapVars, cmpVars, permVars, loadVars>>

NextParse == ParseIPv4 \/ ParseIPv6 \/ ParseReturn

SpecParse == Init /\ [][NextParse]_vars

\* the scalar width of the text's family
Bits == IF pin.family = "ipv4" THEN V4Bits ELSE V6Bits

\* a text a/n whose two parts parse has been parsed
CidrParsed ==
    /\ pout.kind # "none"
    /\ pin.form = "cidr"
    /\ pin.a >= 0 /\ pin.b >= 0
    /\ pin.family = "ipv6" => pin.colon

\* what C14 says of the result for the address a and the prefix length n
CidrResult ==
    LET a == pin.a
        n == pin.b
    IN /\ (0 < n /\ n < Bits) =>
             /\ pout.kind = "Ok"
             /\ pout.lo = a - (a % Pow2(Bits - n))
             /\ pout.hi = pout.lo + Pow2(Bits - n) - 1
             /\ pout.hi <= MaxOf(Bits)
             /\ pout.lo <= a /\ a <= pout.hi
       /\ n = Bits => pout = POk(a, a)
       /\ n = 0 => pout = IF a = 0 THEN POk(0, MaxOf(Bits)) ELSE PErr
       /\ n > Bits => pout = PErr

\* C14: parsing CIDR text a/n for a scalar of width bits (32 for IPv4, 128 for
\* IPv6): for 0 < n < bits the result is the closed interval with lo = a with
\* its low (bits-n) bits cleared and hi = lo + 2^(bits-n) - 1, computed
\* without overflow and containing a; n = bits yields the single address a;
\* n = 0 yields the whole address space only when a is the all-zero address
\* and a parse error otherwise; n > bits is a parse error.
C14_cidr_parse == CidrParsed => CidrResult

\* C14 as amended: the same for a text a/n that is not longer than the
\* parser's length limit; a longer one is a parse error.
C14_cidr_parse_within_length ==
    /\ (CidrParsed /\ ~pin.long) => CidrResult
    /\ (CidrParsed /\ pin.long) => pout = PErr

\* C14 witness: an IPv6 text a/n with 0 < n < bits has been parsed to a block
\* that has a strictly inside.
C14_witness ==
    /\ CidrParsed
    /\ ~pin.long
    /\ pin.family = "ipv6"
    /\ 0 < pin.b /\ pin.b < Bits
    /\ pout.kind = "Ok"
    /\ pout.lo < pin.a /\ pin.a < pout.hi


\* a dash text has been parsed by the IPv4 parser, successfully
DashParsed ==
    /\ pin.family = "ipv4"
    /\ pin.form = "dash"
    /\ pout.kind = "Ok"

\* the bounds C17 names: a and b, or a and a with its last octet replaced by n
DashBounds ==
    /\ pout.lo = pin.a
    /\ pout.hi = IF pin.dot THEN pin.b
                 ELSE pin.a - (pin.a % Pow2(OctetBits)) + pin.b

\* C17: every interval that the IPv4 address-range parser returns successfully
\* for dash syntax is a well-formed closed interval with lo <= hi: for a-b the
\* bounds are the two addresses a and b, and for a-n (n a decimal 0..255
\* without dots) the lower bound is a and the upper bound is a with its last
\* octet replaced by n.
C17_dash_parse_wellformed ==
    DashParsed => (pout.lo <= pout.hi /\ DashBounds)

\* what holds of C17: the bounds are the ones named, in either order.
C17_dash_parse_bounds == DashParsed => DashBounds

\* the parser never panics on an overflow
Parse_never_panics == pout.kind # "Panic"


\* -------------------------------------------- rir/parse.rs: bulk loading
\* the directory entries load_from_dir walks and the lines of one file
MaxFiles == 2
MaxLines == 3

\* struct Entity as add_entity reads it: the family of range, the interval,
\* the code
Entity ==
    [family : {"ipv4", "ipv6"},
     key : {Scope(0, 0), Scope(1, 1), Scope(2, 2), Range(0, 1), Range(0, 2),
            Range(1, 1), Range(1, 0)},
     val : Values]

\* pub fn add_entity: match entity.range { Ipv4(k) => self.ipv4.insert_interval(k, code)?, .. }
add_entity(t, entity) ==
    { Outcome([t EXCEPT ![entity.family] = o.map], o.res)
      : o \in insert_interval(t[entity.family], entity.key, entity.val) }

\* mutant of propagate: the result of add_entity is dropped
propagate_dropped(res) == "loading"

\* the ? after add_entity in load_from_file and after load_from_file in
\* load_from_dir: what the load goes on as for a result of add_entity
propagate(res) ==
    IF res.kind = "Ok" THEN "loading"
    ELSE IF res.kind = "Panic" THEN "panic"
    ELSE "err"

\* load_from_dir is between two directory entries
InDir == lstat = "loading" /\ lpos.line = 0

\* load_from_file is at the head of its loop, before read_line
InFile == lstat = "loading" /\ lpos.line > 0

\* load_from_dir: the next entry is a directory or is not named *.txt
SkipEntry ==
    /\ InDir
    /\ lpos.file < MaxFiles
    /\ lpos' = [lpos EXCEPT !.file = @ + 1]
    /\ UNCHANGED <<ltree, lstat, lacc, lrej, mapVars, cmpVars, permVars, parseVars>>

\* load_from_dir calls load_from_file on the next entry; File::open succeeds
OpenFile ==
    /\ InDir
    /\ lpos.file < MaxFiles
    /\ lpos' = [file |-> lpos.file + 1, line |-> 1]
    /\ UNCHANGED <<ltree, lstat, lacc, lrej, mapVars, cmpVars, permVars, parseVars>>

\* read_dir, the entry, file_type, File::open or read_line fails: ? returns
IoError ==
    /\ lstat = "loading"
    /\ lpos.file < MaxFiles \/ lpos.line > 0
    /\ lstat' = "err"
    /\ UNCHANGED <<ltree, lpos, lacc, lrej, mapVars, cmpVars, permVars, parseVars>>

\* load_from_file: parse_line(&buf) is None
SkipLine ==
    /\ InFile
    /\ lpos.line <= MaxLines
    /\ lpos' = [lpos EXCEPT !.line = @ + 1]
    /\ UNCHANGED <<ltree, lstat, lacc, lrej, mapVars, cmpVars, permVars, parseVars>>

\* load_from_file: parse_line(&buf) is Some(entity); self.add_entity(entity)?
LoadRecord ==
    /\ InFile
    /\ lpos.line <= MaxLines
    /\ \E entity \in Entity :
          \E o \in add_entity(ltree, entity) :
              /\ ltree' = o.map
              /\ lstat' = propagate(o.res)
              /\ lacc' = IF o.res.kind = "Ok" THEN lacc \cup {entity} ELSE lacc
              /\ lrej' = IF o.res.kind = "Ok" THEN lrej ELSE Append(lrej, entity)
    /\ lpos' = [lpos EXCEPT !.line = @ + 1]
    /\ UNCHANGED <<mapVars, cmpVars, permVars, parseVars>>

\* load_from_file: read_line returns 0; break; Ok(())
EndOfFile ==
    /\ InFile
    /\ lpos' = [lpos EXCEPT !.line = 0]
    /\ UNCHANGED <<ltree, lstat, lacc, lrej, mapVars, cmpVars, permVars, parseVars>>

\* load_from_dir: no entry is left; Ok(())
EndOfDir ==
    /\ InDir
    /\ lstat' = "ok"
    /\ UNCHANGED <<ltree, lpos, lacc, lrej, mapVars, cmpVars, permVars, parseVars>>

NextLoad ==
    \/ SkipEntry
    \/ OpenFile
    \/ IoError
    \/ SkipLine
    \/ LoadRecord
    \/ EndOfFile
    \/ EndOfDir

SpecLoad == Init /\ [][NextLoad]_vars


\* a record that insert takes next to the accepted ones: well-formed and
\* without a common point with an accepted interval of its family
Fits(e, acc) ==
    /\ WellFormed(e.key)
    /\ \A f \in acc : f.family = e.family => ~Intersects(e.key, f.key)

\* the accepted records of one family as the pairs of its map
Accepted(family) == {[key |-> e.key, val |-> e.val] : e \in {f \in lacc : f.family = family}}

\* C15: bulk loading processes records strictly in file order and aborts on
\* the first insertion error: when the k-th accepted record is rejected by
\* insert (Conflict or Invalid), load_from_file returns an error, the records
\* accepted before it remain in the map, and no later record of that file or
\* of later files is inserted; lines that parse to no record are skipped
\* without stopping the load.
C15_load_aborts_on_first_error ==
    /\ lstat \in {"loading", "ok", "err"}
    /\ Len(lrej) <= 1
    /\ lrej # <<>> => (lstat = "err" /\ ~Fits(lrej[1], lacc))
    /\ \A e \in lacc : Fits(e, lacc \ {e})
    /\ Entries(ltree.ipv4) = Accepted("ipv4")
    /\ Entries(ltree.ipv6) = Accepted("ipv6")
    /\ lstat # "loading" => ~ENABLED NextLoad

\* C15 witness: of the lines of the first file one is skipped, one is an
\* accepted record and the last a well-formed record that conflicts; the load
\* has stopped with an error, the accepted record is in the map and another
\* file is left.
C15_witness ==
    /\ lstat = "err"
    /\ lpos.file < MaxFiles
    /\ Len(lrej) = 1
    /\ WellFormed(lrej[1].key)
    /\ Cardinality(lacc) = 1
    /\ len(ltree[lrej[1].family]) = 1
    /\ lpos.line = MaxLines + 1

====
